---------------------------- MODULE Spec2Model ----------------------------
(***************************************************************************)
(* Model of the Mistral chatbot repository: the Flask service (src/api.py) *)
(* and the Streamlit lab application (src/llms.py).                        *)
(*                                                                         *)
(* Text is modelled character by character: a text is a sequence of        *)
(* one-character strings, so that strip(), lower(), startswith(),          *)
(* replace() and the substring test (a in out) are computed as Python      *)
(* computes them.                                                          *)
(***************************************************************************)
EXTENDS Integers, Sequences, FiniteSets, TLC

VARIABLES
    app,        \* which program runs in the process: "api" or "llms"
    api_key,    \* os.getenv("MISTRAL_API_KEY"): "unset", "empty" or "set"
    boot,       \* position of the module-level code of the process
    client,     \* the shared Mistral client handle: constructed or not
    hashOrder,  \* what the process has shown of the iteration order of allowed
    req,        \* the requests (handler runs) of the process
    fnIn,       \* input of the pure function under check
    fnOut       \* its result

vars == <<app, api_key, boot, client, hashOrder, req, fnIn, fnOut>>

(***************************************************************************)
(* Text primitives (Python str methods).                                   *)
(***************************************************************************)

\* The characters.  A printable ASCII character is the string of that one
\* character; the others are named by their code point, "<U+000C>" for the
\* form feed, since a string literal holds neither them nor the backtick.
\* chr(32) .. chr(126), in order.
Ascii ==
    << " ", "!", "\"", "#", "$", "%", "&", "'", "(", ")", "*", "+", ",", "-", ".", "/",
       "0", "1", "2", "3", "4", "5", "6", "7", "8", "9", ":", ";", "<", "=", ">", "?",
       "@", "A", "B", "C", "D", "E", "F", "G", "H", "I", "J", "K", "L", "M", "N", "O",
       "P", "Q", "R", "S", "T", "U", "V", "W", "X", "Y", "Z", "[", "\\", "]", "^", "_",
       "<U+0060>", "a", "b", "c", "d", "e", "f", "g", "h", "i", "j", "k", "l", "m", "n", "o",
       "p", "q", "r", "s", "t", "u", "v", "w", "x", "y", "z", "{", "|", "}", "~" >>

HexDigit == <<"0", "1", "2", "3", "4", "5", "6", "7", "8", "9", "A", "B", "C", "D", "E", "F">>

\* The hexadecimal digits of n, most significant first.
RECURSIVE Hex(_)
Hex(n) == IF n < 16 THEN HexDigit[n + 1] ELSE Hex(n \div 16) \o HexDigit[(n % 16) + 1]

\* The same, padded with zeros to four digits.
Hex4(n) ==
    IF n < 16 THEN "000" \o Hex(n)
    ELSE IF n < 256 THEN "00" \o Hex(n)
    ELSE IF n < 4096 THEN "0" \o Hex(n)
    ELSE Hex(n)

\* chr(n)
Chr(n) ==
    IF n >= 32 /\ n <= 126 THEN Ascii[n - 31]
    ELSE IF n = 9 THEN "\t"
    ELSE IF n = 10 THEN "\n"
    ELSE IF n = 13 THEN "\r"
    ELSE "<U+" \o Hex4(n) \o ">"

\* The code points str.isspace() holds of: the characters str.strip() removes.
WhitespaceCodes ==
    (9..13) \cup (28..32) \cup {133, 160, 5760} \cup (8192..8202)
        \cup {8232, 8233, 8239, 8287, 12288}

Whitespace == {Chr(n) : n \in WhitespaceCodes}

SetMin(S) == CHOOSE x \in S : \A y \in S : x <= y

\* The code points str.lower() changes to one other code point (Unicode
\* 14.0.0, the database of CPython 3.11), as runs <<first, last, step,
\* offset>>: each code point n of first, first + step, .. last lowers to
\* n + offset.
LowerRanges ==
    << <<65,90,1,32>>, <<192,214,1,32>>, <<216,222,1,32>>, <<256,302,2,1>>, <<306,310,2,1>>,
       <<313,327,2,1>>, <<330,374,2,1>>, <<376,376,1,-121>>, <<377,381,2,1>>, <<385,385,1,210>>,
       <<386,388,2,1>>, <<390,390,1,206>>, <<391,391,1,1>>, <<393,394,1,205>>, <<395,395,1,1>>,
       <<398,398,1,79>>, <<399,399,1,202>>, <<400,400,1,203>>, <<401,401,1,1>>, <<403,403,1,205>>,
       <<404,404,1,207>>, <<406,406,1,211>>, <<407,407,1,209>>, <<408,408,1,1>>, <<412,412,1,211>>,
       <<413,413,1,213>>, <<415,415,1,214>>, <<416,420,2,1>>, <<422,422,1,218>>, <<423,423,1,1>>,
       <<425,425,1,218>>, <<428,428,1,1>>, <<430,430,1,218>>, <<431,431,1,1>>, <<433,434,1,217>>,
       <<435,437,2,1>>, <<439,439,1,219>>, <<440,440,1,1>>, <<444,444,1,1>>, <<452,452,1,2>>,
       <<453,453,1,1>>, <<455,455,1,2>>, <<456,456,1,1>>, <<458,458,1,2>>, <<459,475,2,1>>,
       <<478,494,2,1>>, <<497,497,1,2>>, <<498,500,2,1>>, <<502,502,1,-97>>, <<503,503,1,-56>>,
       <<504,542,2,1>>, <<544,544,1,-130>>, <<546,562,2,1>>, <<570,570,1,10795>>, <<571,571,1,1>>,
       <<573,573,1,-163>>, <<574,574,1,10792>>, <<577,577,1,1>>, <<579,579,1,-195>>, <<580,580,1,69>>,
       <<581,581,1,71>>, <<582,590,2,1>>, <<880,882,2,1>>, <<886,886,1,1>>, <<895,895,1,116>>,
       <<902,902,1,38>>, <<904,906,1,37>>, <<908,908,1,64>>, <<910,911,1,63>>, <<913,929,1,32>>,
       <<931,939,1,32>>, <<975,975,1,8>>, <<984,1006,2,1>>, <<1012,1012,1,-60>>, <<1015,1015,1,1>>,
       <<1017,1017,1,-7>>, <<1018,1018,1,1>>, <<1021,1023,1,-130>>, <<1024,1039,1,80>>, <<1040,1071,1,32>>,
       <<1120,1152,2,1>>, <<1162,1214,2,1>>, <<1216,1216,1,15>>, <<1217,1229,2,1>>, <<1232,1326,2,1>>,
       <<1329,1366,1,48>>, <<4256,4293,1,7264>>, <<4295,4295,1,7264>>, <<4301,4301,1,7264>>, <<5024,5103,1,38864>>,
       <<5104,5109,1,8>>, <<7312,7354,1,-3008>>, <<7357,7359,1,-3008>>, <<7680,7828,2,1>>, <<7838,7838,1,-7615>>,
       <<7840,7934,2,1>>, <<7944,7951,1,-8>>, <<7960,7965,1,-8>>, <<7976,7983,1,-8>>, <<7992,7999,1,-8>>,
       <<8008,8013,1,-8>>, <<8025,8031,2,-8>>, <<8040,8047,1,-8>>, <<8072,8079,1,-8>>, <<8088,8095,1,-8>>,
       <<8104,8111,1,-8>>, <<8120,8121,1,-8>>, <<8122,8123,1,-74>>, <<8124,8124,1,-9>>, <<8136,8139,1,-86>>,
       <<8140,8140,1,-9>>, <<8152,8153,1,-8>>, <<8154,8155,1,-100>>, <<8168,8169,1,-8>>, <<8170,8171,1,-112>>,
       <<8172,8172,1,-7>>, <<8184,8185,1,-128>>, <<8186,8187,1,-126>>, <<8188,8188,1,-9>>, <<8486,8486,1,-7517>>,
       <<8490,8490,1,-8383>>, <<8491,8491,1,-8262>>, <<8498,8498,1,28>>, <<8544,8559,1,16>>, <<8579,8579,1,1>>,
       <<9398,9423,1,26>>, <<11264,11311,1,48>>, <<11360,11360,1,1>>, <<11362,11362,1,-10743>>, <<11363,11363,1,-3814>>,
       <<11364,11364,1,-10727>>, <<11367,11371,2,1>>, <<11373,11373,1,-10780>>, <<11374,11374,1,-10749>>, <<11375,11375,1,-10783>>,
       <<11376,11376,1,-10782>>, <<11378,11378,1,1>>, <<11381,11381,1,1>>, <<11390,11391,1,-10815>>, <<11392,11490,2,1>>,
       <<11499,11501,2,1>>, <<11506,11506,1,1>>, <<42560,42604,2,1>>, <<42624,42650,2,1>>, <<42786,42798,2,1>>,
       <<42802,42862,2,1>>, <<42873,42875,2,1>>, <<42877,42877,1,-35332>>, <<42878,42886,2,1>>, <<42891,42891,1,1>>,
       <<42893,42893,1,-42280>>, <<42896,42898,2,1>>, <<42902,42920,2,1>>, <<42922,42922,1,-42308>>, <<42923,42923,1,-42319>>,
       <<42924,42924,1,-42315>>, <<42925,42925,1,-42305>>, <<42926,42926,1,-42308>>, <<42928,42928,1,-42258>>, <<42929,42929,1,-42282>>,
       <<42930,42930,1,-42261>>, <<42931,42931,1,928>>, <<42932,42946,2,1>>, <<42948,42948,1,-48>>, <<42949,42949,1,-42307>>,
       <<42950,42950,1,-35384>>, <<42951,42953,2,1>>, <<42960,42960,1,1>>, <<42966,42968,2,1>>, <<42997,42997,1,1>>,
       <<65313,65338,1,32>>, <<66560,66599,1,40>>, <<66736,66771,1,40>>, <<66928,66938,1,39>>, <<66940,66954,1,39>>,
       <<66956,66962,1,39>>, <<66964,66965,1,39>>, <<68736,68786,1,64>>, <<71840,71871,1,32>>, <<93760,93791,1,32>>,
       <<125184,125217,1,34>> >>

\* The code points of a run <<first, last, step, ...>>.
RangeCodes(r) == {r[1] + k * r[3] : k \in 0..((r[2] - r[1]) \div r[3])}

LowerPairs ==
    UNION { {<<Chr(n), Chr(n + LowerRanges[i][4])>> : n \in RangeCodes(LowerRanges[i])} :
            i \in DOMAIN LowerRanges }

\* U+0130, the capital I with a dot above: the one character that lowers to
\* two, "i" and the combining dot U+0307.
DottedI == Chr(304)

\* U+03A3, the capital sigma: it lowers to the final sigma U+03C2 at the end
\* of a word and to U+03C3 elsewhere.
CapitalSigma == Chr(931)

\* The case-ignorable code points, as runs <<first, last>>.
CaseIgnorableRanges ==
    << <<39,39>>, <<46,46>>, <<58,58>>, <<94,94>>, <<96,96>>, <<168,168>>,
       <<173,173>>, <<175,175>>, <<180,180>>, <<183,184>>, <<688,879>>, <<884,885>>,
       <<890,890>>, <<900,901>>, <<903,903>>, <<1155,1161>>, <<1369,1369>>, <<1375,1375>>,
       <<1425,1469>>, <<1471,1471>>, <<1473,1474>>, <<1476,1477>>, <<1479,1479>>, <<1524,1524>>,
       <<1536,1541>>, <<1552,1562>>, <<1564,1564>>, <<1600,1600>>, <<1611,1631>>, <<1648,1648>>,
       <<1750,1757>>, <<1759,1768>>, <<1770,1773>>, <<1807,1807>>, <<1809,1809>>, <<1840,1866>>,
       <<1958,1968>>, <<2027,2037>>, <<2042,2042>>, <<2045,2045>>, <<2070,2093>>, <<2137,2139>>,
       <<2184,2184>>, <<2192,2193>>, <<2200,2207>>, <<2249,2306>>, <<2362,2362>>, <<2364,2364>>,
       <<2369,2376>>, <<2381,2381>>, <<2385,2391>>, <<2402,2403>>, <<2417,2417>>, <<2433,2433>>,
       <<2492,2492>>, <<2497,2500>>, <<2509,2509>>, <<2530,2531>>, <<2558,2558>>, <<2561,2562>>,
       <<2620,2620>>, <<2625,2626>>, <<2631,2632>>, <<2635,2637>>, <<2641,2641>>, <<2672,2673>>,
       <<2677,2677>>, <<2689,2690>>, <<2748,2748>>, <<2753,2757>>, <<2759,2760>>, <<2765,2765>>,
       <<2786,2787>>, <<2810,2815>>, <<2817,2817>>, <<2876,2876>>, <<2879,2879>>, <<2881,2884>>,
       <<2893,2893>>, <<2901,2902>>, <<2914,2915>>, <<2946,2946>>, <<3008,3008>>, <<3021,3021>>,
       <<3072,3072>>, <<3076,3076>>, <<3132,3132>>, <<3134,3136>>, <<3142,3144>>, <<3146,3149>>,
       <<3157,3158>>, <<3170,3171>>, <<3201,3201>>, <<3260,3260>>, <<3263,3263>>, <<3270,3270>>,
       <<3276,3277>>, <<3298,3299>>, <<3328,3329>>, <<3387,3388>>, <<3393,3396>>, <<3405,3405>>,
       <<3426,3427>>, <<3457,3457>>, <<3530,3530>>, <<3538,3540>>, <<3542,3542>>, <<3633,3633>>,
       <<3636,3642>>, <<3654,3662>>, <<3761,3761>>, <<3764,3772>>, <<3782,3782>>, <<3784,3789>>,
       <<3864,3865>>, <<3893,3893>>, <<3895,3895>>, <<3897,3897>>, <<3953,3966>>, <<3968,3972>>,
       <<3974,3975>>, <<3981,3991>>, <<3993,4028>>, <<4038,4038>>, <<4141,4144>>, <<4146,4151>>,
       <<4153,4154>>, <<4157,4158>>, <<4184,4185>>, <<4190,4192>>, <<4209,4212>>, <<4226,4226>>,
       <<4229,4230>>, <<4237,4237>>, <<4253,4253>>, <<4348,4348>>, <<4957,4959>>, <<5906,5908>>,
       <<5938,5939>>, <<5970,5971>>, <<6002,6003>>, <<6068,6069>>, <<6071,6077>>, <<6086,6086>>,
       <<6089,6099>>, <<6103,6103>>, <<6109,6109>>, <<6155,6159>>, <<6211,6211>>, <<6277,6278>>,
       <<6313,6313>>, <<6432,6434>>, <<6439,6440>>, <<6450,6450>>, <<6457,6459>>, <<6679,6680>>,
       <<6683,6683>>, <<6742,6742>>, <<6744,6750>>, <<6752,6752>>, <<6754,6754>>, <<6757,6764>>,
       <<6771,6780>>, <<6783,6783>>, <<6823,6823>>, <<6832,6862>>, <<6912,6915>>, <<6964,6964>>,
       <<6966,6970>>, <<6972,6972>>, <<6978,6978>>, <<7019,7027>>, <<7040,7041>>, <<7074,7077>>,
       <<7080,7081>>, <<7083,7085>>, <<7142,7142>>, <<7144,7145>>, <<7149,7149>>, <<7151,7153>>,
       <<7212,7219>>, <<7222,7223>>, <<7288,7293>>, <<7376,7378>>, <<7380,7392>>, <<7394,7400>>,
       <<7405,7405>>, <<7412,7412>>, <<7416,7417>>, <<7468,7530>>, <<7544,7544>>, <<7579,7679>>,
       <<8125,8125>>, <<8127,8129>>, <<8141,8143>>, <<8157,8159>>, <<8173,8175>>, <<8189,8190>>,
       <<8203,8207>>, <<8216,8217>>, <<8228,8228>>, <<8231,8231>>, <<8234,8238>>, <<8288,8292>>,
       <<8294,8303>>, <<8305,8305>>, <<8319,8319>>, <<8336,8348>>, <<8400,8432>>, <<11388,11389>>,
       <<11503,11505>>, <<11631,11631>>, <<11647,11647>>, <<11744,11775>>, <<11823,11823>>, <<12293,12293>>,
       <<12330,12333>>, <<12337,12341>>, <<12347,12347>>, <<12441,12446>>, <<12540,12542>>, <<40981,40981>>,
       <<42232,42237>>, <<42508,42508>>, <<42607,42610>>, <<42612,42621>>, <<42623,42623>>, <<42652,42655>>,
       <<42736,42737>>, <<42752,42785>>, <<42864,42864>>, <<42888,42890>>, <<42994,42996>>, <<43000,43001>>,
       <<43010,43010>>, <<43014,43014>>, <<43019,43019>>, <<43045,43046>>, <<43052,43052>>, <<43204,43205>>,
       <<43232,43249>>, <<43263,43263>>, <<43302,43309>>, <<43335,43345>>, <<43392,43394>>, <<43443,43443>>,
       <<43446,43449>>, <<43452,43453>>, <<43471,43471>>, <<43493,43494>>, <<43561,43566>>, <<43569,43570>>,
       <<43573,43574>>, <<43587,43587>>, <<43596,43596>>, <<43632,43632>>, <<43644,43644>>, <<43696,43696>>,
       <<43698,43700>>, <<43703,43704>>, <<43710,43711>>, <<43713,43713>>, <<43741,43741>>, <<43756,43757>>,
       <<43763,43764>>, <<43766,43766>>, <<43867,43871>>, <<43881,43883>>, <<44005,44005>>, <<44008,44008>>,
       <<44013,44013>>, <<64286,64286>>, <<64434,64450>>, <<65024,65039>>, <<65043,65043>>, <<65056,65071>>,
       <<65106,65106>>, <<65109,65109>>, <<65279,65279>>, <<65287,65287>>, <<65294,65294>>, <<65306,65306>>,
       <<65342,65342>>, <<65344,65344>>, <<65392,65392>>, <<65438,65439>>, <<65507,65507>>, <<65529,65531>>,
       <<66045,66045>>, <<66272,66272>>, <<66422,66426>>, <<67456,67461>>, <<67463,67504>>, <<67506,67514>>,
       <<68097,68099>>, <<68101,68102>>, <<68108,68111>>, <<68152,68154>>, <<68159,68159>>, <<68325,68326>>,
       <<68900,68903>>, <<69291,69292>>, <<69446,69456>>, <<69506,69509>>, <<69633,69633>>, <<69688,69702>>,
       <<69744,69744>>, <<69747,69748>>, <<69759,69761>>, <<69811,69814>>, <<69817,69818>>, <<69821,69821>>,
       <<69826,69826>>, <<69837,69837>>, <<69888,69890>>, <<69927,69931>>, <<69933,69940>>, <<70003,70003>>,
       <<70016,70017>>, <<70070,70078>>, <<70089,70092>>, <<70095,70095>>, <<70191,70193>>, <<70196,70196>>,
       <<70198,70199>>, <<70206,70206>>, <<70367,70367>>, <<70371,70378>>, <<70400,70401>>, <<70459,70460>>,
       <<70464,70464>>, <<70502,70508>>, <<70512,70516>>, <<70712,70719>>, <<70722,70724>>, <<70726,70726>>,
       <<70750,70750>>, <<70835,70840>>, <<70842,70842>>, <<70847,70848>>, <<70850,70851>>, <<71090,71093>>,
       <<71100,71101>>, <<71103,71104>>, <<71132,71133>>, <<71219,71226>>, <<71229,71229>>, <<71231,71232>>,
       <<71339,71339>>, <<71341,71341>>, <<71344,71349>>, <<71351,71351>>, <<71453,71455>>, <<71458,71461>>,
       <<71463,71467>>, <<71727,71735>>, <<71737,71738>>, <<71995,71996>>, <<71998,71998>>, <<72003,72003>>,
       <<72148,72151>>, <<72154,72155>>, <<72160,72160>>, <<72193,72202>>, <<72243,72248>>, <<72251,72254>>,
       <<72263,72263>>, <<72273,72278>>, <<72281,72283>>, <<72330,72342>>, <<72344,72345>>, <<72752,72758>>,
       <<72760,72765>>, <<72767,72767>>, <<72850,72871>>, <<72874,72880>>, <<72882,72883>>, <<72885,72886>>,
       <<73009,73014>>, <<73018,73018>>, <<73020,73021>>, <<73023,73029>>, <<73031,73031>>, <<73104,73105>>,
       <<73109,73109>>, <<73111,73111>>, <<73459,73460>>, <<78896,78904>>, <<92912,92916>>, <<92976,92982>>,
       <<92992,92995>>, <<94031,94031>>, <<94095,94111>>, <<94176,94177>>, <<94179,94180>>, <<110576,110579>>,
       <<110581,110587>>, <<110589,110590>>, <<113821,113822>>, <<113824,113827>>, <<118528,118573>>, <<118576,118598>>,
       <<119143,119145>>, <<119155,119170>>, <<119173,119179>>, <<119210,119213>>, <<119362,119364>>, <<121344,121398>>,
       <<121403,121452>>, <<121461,121461>>, <<121476,121476>>, <<121499,121503>>, <<121505,121519>>, <<122880,122886>>,
       <<122888,122904>>, <<122907,122913>>, <<122915,122916>>, <<122918,122922>>, <<123184,123197>>, <<123566,123566>>,
       <<123628,123631>>, <<125136,125142>>, <<125252,125259>>, <<127995,127999>>, <<917505,917505>>, <<917536,917631>>,
       <<917760,917999>> >>

\* The cased code points that are not case-ignorable, as runs <<first, last>>.
CasedRanges ==
    << <<65,90>>, <<97,122>>, <<170,170>>, <<181,181>>, <<186,186>>, <<192,214>>,
       <<216,246>>, <<248,442>>, <<444,447>>, <<452,659>>, <<661,687>>, <<880,883>>,
       <<886,887>>, <<891,893>>, <<895,895>>, <<902,902>>, <<904,906>>, <<908,908>>,
       <<910,929>>, <<931,1013>>, <<1015,1153>>, <<1162,1327>>, <<1329,1366>>, <<1376,1416>>,
       <<4256,4293>>, <<4295,4295>>, <<4301,4301>>, <<4304,4346>>, <<4349,4351>>, <<5024,5109>>,
       <<5112,5117>>, <<7296,7304>>, <<7312,7354>>, <<7357,7359>>, <<7424,7467>>, <<7531,7543>>,
       <<7545,7578>>, <<7680,7957>>, <<7960,7965>>, <<7968,8005>>, <<8008,8013>>, <<8016,8023>>,
       <<8025,8025>>, <<8027,8027>>, <<8029,8029>>, <<8031,8061>>, <<8064,8116>>, <<8118,8124>>,
       <<8126,8126>>, <<8130,8132>>, <<8134,8140>>, <<8144,8147>>, <<8150,8155>>, <<8160,8172>>,
       <<8178,8180>>, <<8182,8188>>, <<8450,8450>>, <<8455,8455>>, <<8458,8467>>, <<8469,8469>>,
       <<8473,8477>>, <<8484,8484>>, <<8486,8486>>, <<8488,8488>>, <<8490,8493>>, <<8495,8500>>,
       <<8505,8505>>, <<8508,8511>>, <<8517,8521>>, <<8526,8526>>, <<8544,8575>>, <<8579,8580>>,
       <<9398,9449>>, <<11264,11387>>, <<11390,11492>>, <<11499,11502>>, <<11506,11507>>, <<11520,11557>>,
       <<11559,11559>>, <<11565,11565>>, <<42560,42605>>, <<42624,42651>>, <<42786,42863>>, <<42865,42887>>,
       <<42891,42894>>, <<42896,42954>>, <<42960,42961>>, <<42963,42963>>, <<42965,42969>>, <<42997,42998>>,
       <<43002,43002>>, <<43824,43866>>, <<43872,43880>>, <<43888,43967>>, <<64256,64262>>, <<64275,64279>>,
       <<65313,65338>>, <<65345,65370>>, <<66560,66639>>, <<66736,66771>>, <<66776,66811>>, <<66928,66938>>,
       <<66940,66954>>, <<66956,66962>>, <<66964,66965>>, <<66967,66977>>, <<66979,66993>>, <<66995,67001>>,
       <<67003,67004>>, <<68736,68786>>, <<68800,68850>>, <<71840,71903>>, <<93760,93823>>, <<119808,119892>>,
       <<119894,119964>>, <<119966,119967>>, <<119970,119970>>, <<119973,119974>>, <<119977,119980>>, <<119982,119993>>,
       <<119995,119995>>, <<119997,120003>>, <<120005,120069>>, <<120071,120074>>, <<120077,120084>>, <<120086,120092>>,
       <<120094,120121>>, <<120123,120126>>, <<120128,120132>>, <<120134,120134>>, <<120138,120144>>, <<120146,120485>>,
       <<120488,120512>>, <<120514,120538>>, <<120540,120570>>, <<120572,120596>>, <<120598,120628>>, <<120630,120654>>,
       <<120656,120686>>, <<120688,120712>>, <<120714,120744>>, <<120746,120770>>, <<120772,120779>>, <<122624,122633>>,
       <<122635,122654>>, <<125184,125251>>, <<127280,127305>>, <<127312,127337>>, <<127344,127369>> >>

CaseIgnorable ==
    UNION { {Chr(n) : n \in CaseIgnorableRanges[i][1]..CaseIgnorableRanges[i][2]} :
            i \in DOMAIN CaseIgnorableRanges }

Cased ==
    UNION { {Chr(n) : n \in CasedRanges[i][1]..CasedRanges[i][2]} :
            i \in DOMAIN CasedRanges }

\* Index of the nearest character at or before j that is not case-ignorable,
\* 0 when there is none.
RECURSIVE PrevNotIgnorable(_, _)
PrevNotIgnorable(s, j) ==
    IF j < 1 THEN 0
    ELSE IF s[j] \in CaseIgnorable THEN PrevNotIgnorable(s, j - 1)
    ELSE j

\* Index of the nearest character at or after j that is not case-ignorable,
\* Len(s) + 1 when there is none.
RECURSIVE NextNotIgnorable(_, _)
NextNotIgnorable(s, j) ==
    IF j > Len(s) THEN j
    ELSE IF s[j] \in CaseIgnorable THEN NextNotIgnorable(s, j + 1)
    ELSE j

\* The capital sigma at s[i] is in the final position: a cased character
\* precedes it and none follows it, case-ignorable characters skipped.
FinalSigma(s, i) ==
    /\ PrevNotIgnorable(s, i - 1) >= 1
    /\ s[PrevNotIgnorable(s, i - 1)] \in Cased
    /\ \/ NextNotIgnorable(s, i + 1) > Len(s)
       \/ s[NextNotIgnorable(s, i + 1)] \notin Cased

\* str.lower() on one character named by its code point, taken alone: the
\* characters it becomes.
LowerOther(c) ==
    IF c = DottedI THEN <<"i", Chr(775)>>
    ELSE IF \E p \in LowerPairs : p[1] = c
    THEN <<(CHOOSE p \in LowerPairs : p[1] = c)[2]>>
    ELSE <<c>>

\* str.lower() on one printable ASCII character.
LowerAscii(c) ==
    CASE c = "A" -> "a" [] c = "B" -> "b" [] c = "C" -> "c" [] c = "D" -> "d"
      [] c = "E" -> "e" [] c = "F" -> "f" [] c = "G" -> "g" [] c = "H" -> "h"
      [] c = "I" -> "i" [] c = "J" -> "j" [] c = "K" -> "k" [] c = "L" -> "l"
      [] c = "M" -> "m" [] c = "N" -> "n" [] c = "O" -> "o" [] c = "P" -> "p"
      [] c = "Q" -> "q" [] c = "R" -> "r" [] c = "S" -> "s" [] c = "T" -> "t"
      [] c = "U" -> "u" [] c = "V" -> "v" [] c = "W" -> "w" [] c = "X" -> "x"
      [] c = "Y" -> "y" [] c = "Z" -> "z" [] OTHER -> c

\* str.lower() on one character taken alone: the characters it becomes.
LowerChar(c) == IF Len(c) = 1 THEN <<LowerAscii(c)>> ELSE LowerOther(c)

\* The characters s[i] becomes in s.lower().
LowerAt(s, i) ==
    IF s[i] = CapitalSigma
    THEN <<IF FinalSigma(s, i) THEN Chr(962) ELSE Chr(963)>>
    ELSE LowerChar(s[i])

\* The lowered characters of s from index i on.
RECURSIVE LowerFrom(_, _)
LowerFrom(s, i) == IF i > Len(s) THEN <<>> ELSE LowerAt(s, i) \o LowerFrom(s, i + 1)

\* str.lower(): a text of printable ASCII is lowered character by character;
\* any other by LowerAt.
lower(s) ==
    IF \A i \in 1..Len(s) : Len(s[i]) = 1
    THEN SubSeq([i \in 1..Len(s) |-> LowerAscii(s[i])], 1, Len(s))
    ELSE LowerFrom(s, 1)

\* Index of the first character from i on that is no whitespace, Len(s) + 1
\* when there is none.
RECURSIVE FirstKept(_, _)
FirstKept(s, i) ==
    IF i > Len(s) THEN i
    ELSE IF s[i] \in Whitespace THEN FirstKept(s, i + 1)
    ELSE i

\* Index of the last character up to i that is no whitespace, 0 when there
\* is none.
RECURSIVE LastKept(_, _)
LastKept(s, i) ==
    IF i < 1 THEN 0
    ELSE IF s[i] \in Whitespace THEN LastKept(s, i - 1)
    ELSE i

\* str.strip(): drops leading and trailing whitespace.
strip(s) == SubSeq(s, FirstKept(s, 1), LastKept(s, Len(s)))

\* str.startswith(prefix)
startswith(s, prefix) ==
    /\ Len(prefix) <= Len(s)
    /\ SubSeq(s, 1, Len(prefix)) = prefix

\* The substring test (sub in s).
Contains(sub, s) ==
    \E i \in 1..(Len(s) - Len(sub) + 1) : \A j \in 1..Len(sub) : s[i + j - 1] = sub[j]

\* str.replace(old, ""): removes the non-overlapping occurrences of old,
\* scanning from the left.
RECURSIVE RemoveAll(_, _)
RemoveAll(s, old) ==
    IF s = <<>> THEN <<>>
    ELSE IF startswith(s, old)
         THEN RemoveAll(SubSeq(s, Len(old) + 1, Len(s)), old)
         ELSE <<Head(s)>> \o RemoveAll(Tail(s), old)

(***************************************************************************)
(* The canonical categories.                                               *)
(***************************************************************************)

CardArrival == <<"c","a","r","d"," ","a","r","r","i","v","a","l">>

ChangePin == <<"c","h","a","n","g","e"," ","p","i","n">>

ExchangeRate == <<"e","x","c","h","a","n","g","e"," ","r","a","t","e">>

CountrySupport == <<"c","o","u","n","t","r","y"," ","s","u","p","p","o","r","t">>

CancelTransfer == <<"c","a","n","c","e","l"," ","t","r","a","n","s","f","e","r">>

ChargeDispute == <<"c","h","a","r","g","e"," ","d","i","s","p","u","t","e">>

CustomerService == <<"c","u","s","t","o","m","e","r"," ","s","e","r","v","i","c","e">>

\* The labels in the order the source declares them.
DeclaredOrder ==
    << CardArrival, ChangePin, ExchangeRate, CountrySupport,
       CancelTransfer, ChargeDispute, CustomerService >>

\* The set literal allowed of classify_inquiry.
allowed == {DeclaredOrder[i] : i \in 1..Len(DeclaredOrder)}

\* allowed is a Python set of str: the for loop over it visits it in hash
\* order, which str hash randomisation (PYTHONHASHSEED) fixes anew in every
\* process.  Any arrangement of the seven labels is a possible order.
\* The order of a process shows only in what its classifications return, so
\* hashOrder holds what they have shown of it: the pairs <<a, b>> with a
\* visited before b.  A process that has shown nothing may have any order.
RECURSIVE Arrangements(_)
Arrangements(S) ==
    IF S = {} THEN {<<>>}
    ELSE UNION {{<<x>> \o p : p \in Arrangements(S \ {x})} : x \in S}

HashOrders == Arrangements(allowed)

\* The for loop over allowed, from the i-th label visited on: the index of
\* the first label that occurs in out, 0 when the loop ends without one.
RECURSIVE FirstMatch(_, _, _)
FirstMatch(out, order, i) ==
    IF i > Len(order) THEN 0
    ELSE IF Contains(order[i], out) THEN i
    ELSE FirstMatch(out, order, i + 1)

\* classify_inquiry without its fallback: the normalised text is returned
\* when no label occurs in it.
classify_inquiry_NoFallback(text, order) ==
    LET out == lower(strip(text))
        hit == FirstMatch(out, order, 1)
    IN  IF hit = 0 THEN out ELSE order[hit]

\* classify_inquiry returning the loop variable after the loop: the label
\* visited last.
classify_inquiry_LoopVariable(text, order) ==
    LET out == lower(strip(text))
        hit == FirstMatch(out, order, 1)
    IN  IF hit = 0 THEN order[Len(order)] ELSE order[hit]

\* classify_inquiry after the generation call returned text: normalise the
\* text, return the first label of the iteration order that occurs in it,
\* the literal "customer service" when none does.
classify_inquiry(text, order) ==
    LET out == lower(strip(text))
        hit == FirstMatch(out, order, 1)
    IN  IF hit = 0 THEN CustomerService ELSE order[hit]

\* The labels that occur in the normalised text.
LabelsIn(text) ==
    LET out == lower(strip(text))
    IN  {a \in allowed : Contains(a, out)}

Position(order, a) == CHOOSE i \in 1..Len(order) : order[i] = a

\* The order visits a before b for every pair <<a, b>> shown.
Agrees(order, shown) ==
    \A p \in shown : Position(order, p[1]) < Position(order, p[2])

Compose(R) ==
    R \cup {<<x[1][1], x[2][2]>> : x \in {y \in R \X R : y[1][2] = y[2][1]}}

\* The transitive closure of the pairs R.
RECURSIVE Closure(_)
Closure(R) == IF Compose(R) = R THEN R ELSE Closure(Compose(R))

\* What the process has shown once a classification that found the labels
\* found has returned cat: the loop reached cat before any other of them.
Learn(shown, found, cat) ==
    IF found = {} THEN shown
    ELSE Closure(shown \cup {<<cat, b>> : b \in found \ {cat}})

\* The categories classify_inquiry(text, o) over the orders o that agree
\* with what the process has shown: the fallback when no label occurs, else
\* each label found that none of the others is known to precede.
Categories(text, shown) ==
    LET found == LabelsIn(text)
    IN  IF found = {} THEN {CustomerService}
        ELSE {c \in found : \A b \in found : <<b, c>> \notin shown}

(***************************************************************************)
(* json.loads, on the JSON texts of the modelled alphabet.  Positions are  *)
(* Python's: 0-based character indices.  A failure carries the message and *)
(* the position of the JSONDecodeError.                                    *)
(***************************************************************************)

\* Python's None.  json.loads returns it for the JSON text null.
None == [t |-> "None"]

PyBool(b) == [t |-> "bool", b |-> b]

PyInt(n) == [t |-> "int", n |-> n]

\* A float is kept as its lexeme.
PyFloat(lex) == [t |-> "float", lex |-> lex]

PyStr(chars) == [t |-> "str", s |-> chars]

PyList(items) == [t |-> "list", items |-> items]

PyDict(d) == [t |-> "dict", d |-> d]

Ok(val, end) == [ok |-> TRUE, val |-> val, end |-> end]

Fail(msg, pos) == [ok |-> FALSE, msg |-> msg, pos |-> pos]

\* s[i:i+1]: the character at 0-based index i, "" past the end.
At(s, i) == IF i >= 0 /\ i < Len(s) THEN s[i + 1] ELSE ""

\* s[i:j]
Slice(s, i, j) == SubSeq(s, i + 1, IF j < Len(s) THEN j ELSE Len(s))

JsonWhitespace == {" ", "\t", "\n", "\r"}

Digits == {"0", "1", "2", "3", "4", "5", "6", "7", "8", "9"}

DigitValue(c) ==
    CASE c = "0" -> 0 [] c = "1" -> 1 [] c = "2" -> 2 [] c = "3" -> 3
      [] c = "4" -> 4 [] c = "5" -> 5 [] c = "6" -> 6 [] c = "7" -> 7
      [] c = "8" -> 8 [] c = "9" -> 9

\* WHITESPACE.match(s, i).end()
RECURSIVE skip_ws(_, _)
skip_ws(s, i) == IF At(s, i) \in JsonWhitespace THEN skip_ws(s, i + 1) ELSE i

\* End of the run of digits starting at i.
RECURSIVE DigitsEnd(_, _)
DigitsEnd(s, i) == IF At(s, i) \in Digits THEN DigitsEnd(s, i + 1) ELSE i

RECURSIVE DecimalValue(_)
DecimalValue(ds) ==
    IF ds = <<>> THEN 0
    ELSE 10 * DecimalValue(SubSeq(ds, 1, Len(ds) - 1)) + DigitValue(ds[Len(ds)])

\* NUMBER_RE: (-?(?:0|[1-9]\d*))(\.\d+)?([eE][-+]?\d+)?  matched at idx.
\* End of the integer part that starts at i0 (after the sign), -1 if none.
IntEnd(s, i0) ==
    IF At(s, i0) = "0" THEN i0 + 1
    ELSE IF At(s, i0) \in Digits THEN DigitsEnd(s, i0)
    ELSE -1

\* End of the optional fraction that starts at intEnd.
FracEnd(s, intEnd) ==
    IF At(s, intEnd) = "." /\ At(s, intEnd + 1) \in Digits
    THEN DigitsEnd(s, intEnd + 2) ELSE intEnd

\* Where the digits of an exponent starting at frEnd would begin, -1 if none.
ExpDigits(s, frEnd) ==
    IF At(s, frEnd) \in {"e", "E"}
    THEN (IF At(s, frEnd + 1) \in {"+", "-"} THEN frEnd + 2 ELSE frEnd + 1)
    ELSE -1

\* End of the optional exponent whose digits would begin at e1.
ExpEnd(s, frEnd, e1) ==
    IF e1 # -1 /\ At(s, e1) \in Digits THEN DigitsEnd(s, e1) ELSE frEnd

\* End of the whole number whose fraction ends at frEnd.
NumEnd(s, frEnd) == ExpEnd(s, frEnd, ExpDigits(s, frEnd))

Signed(negative, mag) == IF negative THEN 0 - mag ELSE mag

\* int(integer) without fraction and exponent, float(lexeme) with one.
NumberValue(s, idx, i0, intEnd, numEnd) ==
    IF numEnd = intEnd
    THEN Ok(PyInt(Signed(i0 # idx, DecimalValue(Slice(s, i0, intEnd)))), numEnd)
    ELSE Ok(PyFloat(Slice(s, idx, numEnd)), numEnd)

NumberFrom(s, idx, i0, intEnd) ==
    IF intEnd = -1 THEN Fail("Expecting value", idx)
    ELSE NumberValue(s, idx, i0, intEnd, NumEnd(s, FracEnd(s, intEnd)))

SignEnd(s, idx) == IF At(s, idx) = "-" THEN idx + 1 ELSE idx

match_number(s, idx) == NumberFrom(s, idx, SignEnd(s, idx), IntEnd(s, SignEnd(s, idx)))

\* The characters \x00-\x1f: strict mode rejects them inside a string.
ControlChars == {Chr(n) : n \in 0..31}

\* The characters U+0008 and U+000C.
Backspace == "<U+0008>"

FormFeed == "<U+000C>"

Unescape(esc) ==
    CASE esc = "n" -> "\n" [] esc = "t" -> "\t" [] esc = "r" -> "\r"
      [] esc = "b" -> Backspace [] esc = "f" -> FormFeed
      [] OTHER -> esc

HexChars ==
    {"0", "1", "2", "3", "4", "5", "6", "7", "8", "9",
     "a", "b", "c", "d", "e", "f", "A", "B", "C", "D", "E", "F"}

HexValue(c) ==
    CASE c \in Digits -> DigitValue(c)
      [] c \in {"a", "A"} -> 10 [] c \in {"b", "B"} -> 11 [] c \in {"c", "C"} -> 12
      [] c \in {"d", "D"} -> 13 [] c \in {"e", "E"} -> 14 [] c \in {"f", "F"} -> 15

\* The four characters s[i:i+4] are hexadecimal digits.
IsHex4(s, i) == \A k \in 0..3 : At(s, i + k) \in HexChars

\* int(s[i:i+4], 16)
Hex4Value(s, i) ==
    4096 * HexValue(At(s, i)) + 256 * HexValue(At(s, i + 1))
        + 16 * HexValue(At(s, i + 2)) + HexValue(At(s, i + 3))

IsHighSurrogate(c) == c >= 55296 /\ c <= 56319

IsLowSurrogate(c) == c >= 56320 /\ c <= 57343

JoinSurrogates(c, c2) == 65536 + (c - 55296) * 1024 + (c2 - 56320)

RECURSIVE scanstring(_, _, _, _)

\* After \uXXXX gave the high surrogate c and \u follows at end: the second
\* escape joins it when it is a low surrogate, and is scanned anew when not.
SurrogatePair(s, acc, begin, c, end) ==
    IF ~IsHex4(s, end + 2) THEN Fail("Invalid \\uXXXX escape", end + 1)
    ELSE IF IsLowSurrogate(Hex4Value(s, end + 2))
         THEN scanstring(s, end + 6,
                         Append(acc, Chr(JoinSurrogates(c, Hex4Value(s, end + 2)))), begin)
    ELSE scanstring(s, end, Append(acc, Chr(c)), begin)

\* After \uXXXX gave the code point c; end is the index after the escape.
AfterUnicode(s, acc, begin, c, end) ==
    IF IsHighSurrogate(c) /\ end + 6 < Len(s) /\ At(s, end) = "\\" /\ At(s, end + 1) = "u"
    THEN SurrogatePair(s, acc, begin, c, end)
    ELSE scanstring(s, end, Append(acc, Chr(c)), begin)

\* The escape \uXXXX; u is the index of the letter u.
UnicodeEscape(s, acc, begin, u) ==
    IF u + 5 >= Len(s) \/ ~IsHex4(s, u + 1) THEN Fail("Invalid \\uXXXX escape", u)
    ELSE AfterUnicode(s, acc, begin, Hex4Value(s, u + 1), u + 5)

\* scanstring: i is the scan position, begin the index of the opening quote.
scanstring(s, i, acc, begin) ==
    IF At(s, i) = "" THEN Fail("Unterminated string starting at", begin)
    ELSE IF At(s, i) = "\"" THEN Ok(PyStr(acc), i + 1)
    ELSE IF At(s, i) \in ControlChars THEN Fail("Invalid control character at", i)
    ELSE IF At(s, i) # "\\" THEN scanstring(s, i + 1, Append(acc, At(s, i)), begin)
    ELSE IF At(s, i + 1) = "" THEN Fail("Unterminated string starting at", begin)
    ELSE IF At(s, i + 1) = "u" THEN UnicodeEscape(s, acc, begin, i + 1)
    ELSE IF At(s, i + 1) \in {"\"", "\\", "/", "b", "f", "n", "t", "r"}
         THEN scanstring(s, i + 2, Append(acc, Unescape(At(s, i + 1))), begin)
    ELSE Fail("Invalid \\escape", i)

\* dict(pairs): a later pair with the same key replaces the earlier one.
Put(d, k, v) == [x \in (DOMAIN d) \cup {k} |-> IF x = k THEN v ELSE d[x]]

RECURSIVE scan_once(_, _)
RECURSIVE array_items(_, _, _)
RECURSIVE object_pairs(_, _, _)

\* JSONArray after a value: e1 is the index of the next non-blank character.
ArrayDelimiter(s, acc, e1) ==
    IF At(s, e1) = "]" THEN Ok(PyList(acc), e1 + 1)
    ELSE IF At(s, e1) # "," THEN Fail("Expecting ',' delimiter", e1)
    ELSE array_items(s, skip_ws(s, e1 + 1), acc)

ArrayAfterValue(s, acc, v) ==
    IF ~v.ok THEN v ELSE ArrayDelimiter(s, Append(acc, v.val), skip_ws(s, v.end))

\* The loop of JSONArray; end is where the next value starts.
array_items(s, end, acc) == ArrayAfterValue(s, acc, scan_once(s, end))

ArrayOpen(s, e1) ==
    IF At(s, e1) = "]" THEN Ok(PyList(<<>>), e1 + 1) ELSE array_items(s, e1, <<>>)

\* JSONArray; end is the index after "[".
JSONArray(s, end) == ArrayOpen(s, skip_ws(s, end))

\* JSONObject after a comma: e4 is the index of the next non-blank character.
ObjectNextKey(s, acc, e4) ==
    IF At(s, e4) # "\""
    THEN Fail("Expecting property name enclosed in double quotes", e4)
    ELSE object_pairs(s, e4 + 1, acc)

\* JSONObject after a value: e3 is the index of the next non-blank character.
ObjectDelimiter(s, acc, e3) ==
    IF At(s, e3) = "}" THEN Ok(PyDict(acc), e3 + 1)
    ELSE IF At(s, e3) # "," THEN Fail("Expecting ',' delimiter", e3)
    ELSE ObjectNextKey(s, acc, skip_ws(s, e3 + 1))

ObjectAfterValue(s, acc, key, v) ==
    IF ~v.ok THEN v ELSE ObjectDelimiter(s, Put(acc, key, v.val), skip_ws(s, v.end))

\* JSONObject after a key: e1 is the index of the next non-blank character.
ObjectColon(s, acc, key, e1) ==
    IF At(s, e1) # ":" THEN Fail("Expecting ':' delimiter", e1)
    ELSE ObjectAfterValue(s, acc, key, scan_once(s, skip_ws(s, e1 + 1)))

ObjectAfterKey(s, acc, k) ==
    IF ~k.ok THEN k ELSE ObjectColon(s, acc, k.val.s, skip_ws(s, k.end))

\* The loop of JSONObject; end is the index after the opening quote of a key.
object_pairs(s, end, acc) == ObjectAfterKey(s, acc, scanstring(s, end, <<>>, end - 1))

ObjectOpen(s, e1) ==
    IF At(s, e1) = "}" THEN Ok(PyDict(<<>>), e1 + 1)
    ELSE IF At(s, e1) # "\""
         THEN Fail("Expecting property name enclosed in double quotes", e1)
    ELSE object_pairs(s, e1 + 1, <<>>)

\* JSONObject; end is the index after "{".
JSONObject(s, end) == ObjectOpen(s, skip_ws(s, end))

\* The last cases of scan_once: a number, else NaN, Infinity, -Infinity.
NumberOrNamed(s, idx, m) ==
    IF m.ok THEN m
    ELSE IF Slice(s, idx, idx + 3) = <<"N","a","N">>
         THEN Ok(PyFloat(Slice(s, idx, idx + 3)), idx + 3)
    ELSE IF Slice(s, idx, idx + 8) = <<"I","n","f","i","n","i","t","y">>
         THEN Ok(PyFloat(Slice(s, idx, idx + 8)), idx + 8)
    ELSE IF Slice(s, idx, idx + 9) = <<"-","I","n","f","i","n","i","t","y">>
         THEN Ok(PyFloat(Slice(s, idx, idx + 9)), idx + 9)
    ELSE Fail("Expecting value", idx)

\* scan_once: one JSON value starting at idx.  StopIteration(idx) is what
\* every caller turns into "Expecting value" at idx.
scan_once(s, idx) ==
    IF At(s, idx) = "\"" THEN scanstring(s, idx + 1, <<>>, idx)
    ELSE IF At(s, idx) = "{" THEN JSONObject(s, idx + 1)
    ELSE IF At(s, idx) = "[" THEN JSONArray(s, idx + 1)
    ELSE IF Slice(s, idx, idx + 4) = <<"n","u","l","l">> THEN Ok(None, idx + 4)
    ELSE IF Slice(s, idx, idx + 4) = <<"t","r","u","e">> THEN Ok(PyBool(TRUE), idx + 4)
    ELSE IF Slice(s, idx, idx + 5) = <<"f","a","l","s","e">> THEN Ok(PyBool(FALSE), idx + 5)
    ELSE NumberOrNamed(s, idx, match_number(s, idx))

\* The end of JSONDecoder.decode: nothing but whitespace may follow the value.
DecodeEnd(s, r, end) == IF end # Len(s) THEN Fail("Extra data", end) ELSE r

DecodeValue(s, r) == IF ~r.ok THEN r ELSE DecodeEnd(s, r, skip_ws(s, r.end))

\* json.loads(s): a text that starts with the byte order mark is refused;
\* else one value, whitespace around it, nothing after it.
json_loads(s) ==
    IF At(s, 0) = Chr(65279)
    THEN Fail("Unexpected UTF-8 BOM (decode using utf-8-sig)", 0)
    ELSE DecodeValue(s, scan_once(s, skip_ws(s, 0)))

(***************************************************************************)
(* safe_json_parse and the fences.                                         *)
(***************************************************************************)

\* The backtick character U+0060 (the lexer admits no backtick in a string
\* literal, so the character is named).
BT == "<U+0060>"

Fence == <<BT, BT, BT>>

FenceJson == <<BT, BT, BT, "j", "s", "o", "n">>

\* The removal of the fences from a stripped text that starts with one.
RemoveFences(cleaned) ==
    IF startswith(cleaned, Fence)
    THEN strip(RemoveAll(RemoveAll(cleaned, FenceJson), Fence))
    ELSE cleaned

\* The text safe_json_parse hands to json.loads.
strip_fences(text) == RemoveFences(strip(text))

\* The pair safe_json_parse returns: (value, None), or (None, str(e)).
ParseOutcome(r) ==
    IF r.ok THEN <<r.val, None>> ELSE <<None, [msg |-> r.msg, pos |-> r.pos]>>

\* safe_json_parse(text): <<data, error>>; the error stands for str(e).
safe_json_parse(text) == ParseOutcome(json_loads(strip_fences(text)))

(***************************************************************************)
(* Texts the generation service returns to the classification prompt.      *)
(***************************************************************************)

UpperChar(c) ==
    CASE c = "a" -> "A" [] c = "b" -> "B" [] c = "c" -> "C" [] c = "d" -> "D"
      [] c = "e" -> "E" [] c = "f" -> "F" [] c = "g" -> "G" [] c = "h" -> "H"
      [] c = "i" -> "I" [] c = "j" -> "J" [] c = "k" -> "K" [] c = "l" -> "L"
      [] c = "m" -> "M" [] c = "n" -> "N" [] c = "o" -> "O" [] c = "p" -> "P"
      [] c = "q" -> "Q" [] c = "r" -> "R" [] c = "s" -> "S" [] c = "t" -> "T"
      [] c = "u" -> "U" [] c = "v" -> "V" [] c = "w" -> "W" [] c = "x" -> "X"
      [] c = "y" -> "Y" [] c = "z" -> "Z" [] OTHER -> c

Upper(s) == [i \in 1..Len(s) |-> UpperChar(s[i])]

\* Capitalised: "Card arrival".
Capital(s) == [i \in 1..Len(s) |-> IF i = 1 THEN UpperChar(s[i]) ELSE s[i]]

\* "Category: <body>."
Prefixed(body) == <<"C","a","t","e","g","o","r","y",":"," ">> \o body \o <<".">>

\* The body on a line of its own, between other lines and blanks.
MultiLine(body) ==
    <<" ","\n","S","u","r","e","!","\n"," "," ">> \o body \o <<" ","\n","\n">>

\* Texts that contain no label: empty, blank, unrelated, and near misses
\* (a capital E with an acute accent, which lowers to no "e"; a dotted
\* capital I, which lowers to "i" and a combining dot; the Kelvin sign,
\* which lowers to "k"; a capital alpha and a final capital sigma).
NoLabelTexts ==
    { <<>>,
      <<" ","\n","\t">>,
      <<Chr(8490)," ",Chr(913),CapitalSigma>>,
      <<Chr(201),"X","C","H","A","N","G","E"," ","R","A","T","E">>,
      <<"C","H","A","N","G","E"," ","P",DottedI,"N">>,
      <<"h","e","l","l","o">>,
      <<"c","a","r","d","a","r","r","i","v","a","l">>,
      <<"c","h","a","n","g","e"," "," ","p","i","n">>,
      <<"C","a","t","e","g","o","r","y",":"," ","c","u","s","t","o","m","e","r">> }

\* Texts that contain exactly one label, in each decoration.
OneLabelTexts ==
    UNION { { a, Upper(a), Capital(a), Prefixed(a), MultiLine(Capital(a)) } : a \in allowed }

\* Texts that contain two labels, in either order of mention.
TwoLabelTexts ==
    { p[1] \o <<" ","o","r"," ">> \o Upper(p[2]) :
        p \in {q \in allowed \X allowed : q[1] # q[2]} }

\* "exchange pin" contains "change pin" inside a word; a label between a
\* form feed and an em space; the last text names three labels.
OtherTexts ==
    { <<"e","x","c","h","a","n","g","e"," ","p","i","n">>,
      <<FormFeed>> \o Upper(CountrySupport) \o <<Chr(8195)>>,
      Prefixed(CustomerService \o <<"\n">> \o ChargeDispute \o <<",", " ">> \o CancelTransfer) }

ClassifyTexts == NoLabelTexts \cup OneLabelTexts \cup TwoLabelTexts \cup OtherTexts

(***************************************************************************)
(* Specification of classify_inquiry as a function of the generated text   *)
(* and of the iteration order of the process.                              *)
(***************************************************************************)

NoCall == [f |-> "none"]

\* The variables of the process, which the function specifications leave alone.
ProcessIdle ==
    /\ app = "none"
    /\ api_key = "set"
    /\ boot = "start"
    /\ client = FALSE
    /\ req = <<>>

\* The process has shown nothing of its order; the generation call of one
\* classify_inquiry call has returned a text.
InitClassify ==
    /\ ProcessIdle
    /\ hashOrder = {}
    /\ fnIn \in {[f |-> "classify_inquiry", text |-> t] : t \in ClassifyTexts}
    /\ fnOut = NoCall

\* The state once classify_inquiry has returned cat.
Classifies(found, cat) ==
    /\ fnOut' = [f |-> "classify_inquiry", category |-> cat]
    /\ hashOrder' = Learn(hashOrder, found, cat)

\* classify_inquiry returns, in a process of any order o that agrees with
\* what the process has shown.
Classify ==
    /\ fnOut = NoCall
    /\ LET found == LabelsIn(fnIn.text)
       IN  \E o \in HashOrders :
              /\ Agrees(o, hashOrder)
              /\ Classifies(found, classify_inquiry(fnIn.text, o))
    /\ UNCHANGED <<app, api_key, boot, client, req, fnIn>>

NextClassify == Classify

SpecClassify == InitClassify /\ [][NextClassify]_vars

(***************************************************************************)
(* Claims about classify_inquiry (SpecClassify).                           *)
(***************************************************************************)

Classified == fnOut.f = "classify_inquiry"

\* C1: whatever text the generation service returned (any casing,
\* surrounding words, punctuation, several lines, or empty), classify_inquiry
\* returns one of the seven canonical labels.
C1_ResultIsCanonical == Classified => fnOut.category \in allowed

\* C1 witness: a capitalised label on a line of its own among other lines has
\* been resolved to the label.
C1_Witness ==
    /\ Classified
    /\ fnIn.text = MultiLine(Capital(ChangePin))
    /\ fnIn.text \notin allowed
    /\ fnOut.category = ChangePin

\* The label that comes first in the declaration order among those in the text.
FirstDeclared(text) ==
    DeclaredOrder[SetMin({i \in 1..Len(DeclaredOrder) : DeclaredOrder[i] \in LabelsIn(text)})]

\* C2: when the normalised text contains two or more labels, the result is the
\* one that comes first in the declaration order, whatever the process.
C2_FirstInDeclaredOrder ==
    (Classified /\ Cardinality(LabelsIn(fnIn.text)) >= 2)
        => fnOut.category = FirstDeclared(fnIn.text)

\* C3: when the normalised text contains no label, the result is the fallback
\* label "customer service", returned as an ordinary category.
C3_FallbackWhenNoLabel ==
    (Classified /\ LabelsIn(fnIn.text) = {}) => fnOut.category = CustomerService

\* C3 witness: an unrelated text has been classified as "customer service".
C3_Witness ==
    /\ Classified
    /\ fnIn.text = <<"h","e","l","l","o">>
    /\ LabelsIn(fnIn.text) = {}
    /\ fnOut.category = CustomerService

(***************************************************************************)
(* Texts the generation service returns to the extraction prompt.          *)
(***************************************************************************)

\* The sample texts, character by character.
J_AGE ==
    <<"{","\"","a","g","e","\"",":"," ","3","0","}">>

J_NOTES ==
    <<"{","\"","a","g","e","\"",":"," ","6","0",","," ","\"","g","e","n","d","e","r","\"",":"," ","\"","m","a","l","e","\"",","," ","\"","s","m","o","k","i","n","g","\"",":"," ","\"","y","e","s","\"","}">>

J_NULL ==
    <<"n","u","l","l">>

J_TRUE ==
    <<"t","r","u","e">>

J_INT ==
    <<"2","1","0">>

J_STR ==
    <<"\"","a","c","n","e","\"">>

J_LIST ==
    <<"[","1",","," ","[","]",","," ","{","\"","a","\"",":"," ","n","u","l","l","}","]">>

J_EMPTY ==
    <<"{","}">>

J_FENCE_STR ==
    <<"\"",BT,BT,BT,"\"">>

J_FENCE_VAL ==
    <<"{","\"","n","o","t","e","\"",":"," ","\"","u","s","e"," ",BT,BT,BT,"j","s","o","n","\"","}">>

J_JSON_STR ==
    <<"{","\"","f","o","r","m","a","t","\"",":"," ","\"","j","s","o","n","\"","}">>

J_SPACED ==
    <<"{"," ","\"","w","e","i","g","h","t","\""," ",":","\n","\t","2","1","0"," ","}">>

J_ESCAPED ==
    <<"{","\"","a","\\","u","0","0","4","1","\"",":"," ","\"","\\","u","d","8","3","d","\\","u","d","e","0","0","\\","n","\"","}">>

NJ_CONTROL ==
    <<"\"","a",FormFeed,"b","\"">>

NJ_PROSE ==
    <<"n","o","t"," ","j","s","o","n"," ","a","t"," ","a","l","l">>

NJ_HERE ==
    <<"H","e","r","e"," ","i","s"," ","t","h","e"," ","J","S","O","N",":"," ","{","\"","a","g","e","\"",":"," ","3","0","}">>

NJ_TRAIL ==
    <<"{","\"","a","g","e","\"",":"," ","3","0","}"," ","D","o","n","e",".">>

NJ_OPEN ==
    <<"{","\"","a","g","e","\"",":"," ","3","0">>

NJ_COMMA ==
    <<"{","\"","a","g","e","\"",":"," ","3","0",",","}">>

NJ_QUOTE ==
    <<"{","'","a","g","e","'",":"," ","3","0","}">>

NJ_FENCES ==
    <<BT,BT,BT,BT,BT,BT>>

\* JSON texts (each is valid JSON).
JsonTexts ==
    { J_AGE, J_NOTES, J_NULL, J_TRUE, J_INT, J_STR, J_LIST, J_EMPTY,
      J_FENCE_STR, J_FENCE_VAL, J_JSON_STR, J_SPACED, J_ESCAPED }

\* The ways a text is wrapped in fences.
FenceStyles == {"plain", "json", "js", "JSON", "inline"}

Wrap(style, body) ==
    CASE style = "plain"  -> Fence \o <<"\n">> \o body \o <<"\n">> \o Fence
      [] style = "json"   -> FenceJson \o <<"\n">> \o body \o <<"\n">> \o Fence
      [] style = "js"     -> Fence \o <<"j","s","\n">> \o body \o <<"\n">> \o Fence
      [] style = "JSON"   -> Fence \o <<"J","S","O","N","\n">> \o body \o <<"\n">> \o Fence
      [] style = "inline" -> <<" ">> \o FenceJson \o <<" ">> \o body \o <<" ">> \o Fence \o <<"\n">>

\* Texts that are not JSON.
NotJsonTexts ==
    { <<>>,
      <<" ", "\n">>,
      NJ_PROSE, NJ_HERE, NJ_TRAIL, NJ_OPEN, NJ_COMMA, NJ_QUOTE, NJ_FENCES, NJ_CONTROL }

ExtractTexts ==
    JsonTexts \cup NotJsonTexts \cup {Wrap(k, J_AGE) : k \in FenceStyles}
        \cup {Wrap("json", J_NULL), Wrap("json", NJ_PROSE), <<" ">> \o J_NULL \o <<"\n">>,
              <<FormFeed>> \o J_EMPTY \o <<Chr(11)>>, <<Chr(65279)>> \o J_EMPTY}

(***************************************************************************)
(* Specification of safe_json_parse and extract_medical_json as functions  *)
(* of the generated text.                                                  *)
(***************************************************************************)

InitParse ==
    /\ ProcessIdle
    /\ hashOrder = {}
    /\ fnIn \in {[f |-> "extract_medical_json", text |-> x] : x \in ExtractTexts}
            \cup {[f |-> "safe_json_parse", text |-> J, fence |-> k] :
                    J \in JsonTexts, k \in FenceStyles}
    /\ fnOut = NoCall

\* extract_medical_json after its generation call returned fnIn.text.
ExtractionResult(raw, res) ==
    [f |-> "extract_medical_json", raw |-> raw, data |-> res[1], err |-> res[2]]

extract_medical_json(text) == ExtractionResult(strip(text), safe_json_parse(strip(text)))

Extract ==
    /\ fnIn.f = "extract_medical_json"
    /\ fnOut = NoCall
    /\ fnOut' = extract_medical_json(fnIn.text)
    /\ UNCHANGED <<app, api_key, boot, client, hashOrder, req, fnIn>>

\* safe_json_parse on the bare JSON text and on the same text in fences, and
\* the fence stripping applied once and twice.
ParseBareAndFenced ==
    /\ fnIn.f = "safe_json_parse"
    /\ fnOut = NoCall
    /\ fnOut' = [f      |-> "safe_json_parse",
                 bare   |-> safe_json_parse(fnIn.text),
                 fenced |-> safe_json_parse(Wrap(fnIn.fence, fnIn.text)),
                 once   |-> strip_fences(Wrap(fnIn.fence, fnIn.text)),
                 twice  |-> strip_fences(strip_fences(Wrap(fnIn.fence, fnIn.text)))]
    /\ UNCHANGED <<app, api_key, boot, client, hashOrder, req, fnIn>>

NextParse == Extract \/ ParseBareAndFenced

SpecParse == InitParse /\ [][NextParse]_vars

(***************************************************************************)
(* Claims about safe_json_parse and extract_medical_json (SpecParse).      *)
(***************************************************************************)

\* C7: for a non-empty raw text exactly one of the parsed value and the error
\* reason is present; both are absent only when the raw text is empty.
C7_ExactlyOnePresent ==
    fnOut.f = "extract_medical_json" =>
        /\ fnOut.raw # <<>> => ((fnOut.data # None) # (fnOut.err # None))
        /\ (fnOut.data = None /\ fnOut.err = None) => fnOut.raw = <<>>

\* C8: a JSON text in fences (with or without a language tag) parses to the
\* same value, with the same success or failure, as the bare text, and
\* stripping the fences a second time changes nothing.
C8_FencedEqualsBare ==
    fnOut.f = "safe_json_parse" =>
        /\ fnOut.fenced[1] = fnOut.bare[1]
        /\ (fnOut.fenced[2] = None) = (fnOut.bare[2] = None)
        /\ fnOut.twice = fnOut.once

(***************************************************************************)
(* The process: module-level code, then the handlers.                      *)
(*                                                                         *)
(* "api" is src/api.py: its module-level code runs once when the process   *)
(* starts, then Flask serves POST /chat, one thread per request.           *)
(* "llms" is src/llms.py: the Streamlit server starts, then every press of *)
(* a button runs the whole script from the top for that session.           *)
(* A handler waits for the generation service inside mistral_call; that is *)
(* the only point where the runs of different requests interleave.         *)
(***************************************************************************)

\* Number of requests (handler runs) of one process.
MaxReq == 2

Reqs == 1..MaxReq

\* The key check written as a test for None: an empty key passes.
KeyPresent_NotNone(k) == k # "unset"

\* Truthiness of os.getenv("MISTRAL_API_KEY"): unset is None, which is falsy
\* like the empty string.
KeyPresent(k) == k = "set"

\* The operations each program offers: the /chat route; the five tab buttons.
Ops(a) ==
    IF a = "api" THEN {"chat"}
    ELSE {"chatbot", "classify", "extract", "email", "summarize"}

\* The generation calls an operation makes, in order.
Pipeline(op) ==
    CASE op \in {"chat", "chatbot"} -> <<"classify", "reply">>
      [] op = "classify"           -> <<"classify">>
      [] op = "extract"            -> <<"extract">>
      [] op = "email"              -> <<"email">>
      [] op = "summarize"          -> <<"summarize">>

\* The guard without the strip: only the empty text is refused.
IsBlank_NoStrip(text) == text = <<>>

\* The guard of every handler: `if not message` after the strip of chat,
\* `if not user_msg.strip()` and its likes in the tabs.
IsBlank(text) == strip(text) = <<>>

\* The text the handler passes on: chat passes the stripped message, the tabs
\* pass the text area's content as it is.
Inquiry(a, input) == IF a = "api" THEN strip(input) ELSE input

\* What the user submits: nothing, white space only, a padded message.
UserInputs ==
    { <<>>, <<" ", FormFeed, "\n">>, <<Chr(160), "h", "i", "\n">> }

\* What the generation service returns, by the prompt it answers.
RepliesTo(kind) ==
    CASE kind = "classify" ->
            { Capital(CardArrival),
              Prefixed(CustomerService \o <<"\n">> \o ChargeDispute \o <<",", " ">> \o CancelTransfer),
              <<"h","e","l","l","o">> }
      [] kind = "extract" -> { J_NULL, Wrap("json", J_AGE), NJ_PROSE }
      [] OTHER -> { <<" ","O","k",".","\n">>, <<>> }

NoResult == [kind |-> "none", category |-> None, text |-> None, data |-> None, err |-> None]

IdleReq ==
    [pc |-> "idle", op |-> "none", input |-> <<>>, calls |-> <<>>,
     category |-> None, result |-> NoResult]

Pending == [st |-> "pending"]

Returned(text) == [st |-> "text", text |-> text]

Raised == [st |-> "error"]

\* mistral_call(prompt): one client.chat.complete call, in flight.  The prompt
\* is its template (kind) with the inquiry and, for a reply, the category.
mistral_call(kind, inquiry, category) ==
    [kind |-> kind, inquiry |-> inquiry, category |-> category, outcome |-> Pending]

\* The reply prompt built with the default category instead of the resolved one.
ReplyCategory_Default(cat) == PyStr(CustomerService)

\* The category generate_support_reply / bank_support_reply is given: the
\* local variable the handler assigned from classify_inquiry.
ReplyCategory(cat) == PyStr(cat)

\* The inquiry kept in a variable all requests share: the reply prompt
\* carries the message of another request that has arrived.
ReplyInquiry_Shared(r) ==
    LET others == {q \in DOMAIN req : q # r /\ req[q].pc # "idle"}
    IN  IF others = {} THEN Inquiry(app, req[r].input)
        ELSE Inquiry(app, req[CHOOSE q \in others : TRUE].input)

\* The inquiry the reply prompt carries: the handler's own message.
ReplyInquiry(r) == Inquiry(app, req[r].input)

Init ==
    /\ app \in {"api", "llms"}
    /\ api_key \in {"unset", "empty", "set"}
    /\ boot = "start"
    /\ client = FALSE
    /\ hashOrder = {}
    /\ req = [r \in Reqs |-> IdleReq]
    /\ fnIn = NoCall
    /\ fnOut = NoCall

\* The process starts.  api.py: the key check raises RuntimeError before the
\* client is built.  llms.py: the server starts; the script runs per request.
Startup ==
    /\ boot = "start"
    /\ IF app = "api"
       THEN IF KeyPresent(api_key)
            THEN boot' = "serving" /\ client' = TRUE
            ELSE boot' = "failed" /\ client' = client
       ELSE boot' = "serving" /\ client' = client
    /\ UNCHANGED <<app, api_key, hashOrder, req, fnIn, fnOut>>

\* llms.py: a page load or a changed widget runs the script from the top
\* with no button pressed: it ends at st.stop() without a key; with one,
\* get_client builds the client on the first run and returns the cached one
\* on the later ones.
PageLoad ==
    /\ app = "llms"
    /\ boot = "serving"
    /\ client' = (client \/ KeyPresent(api_key))
    /\ UNCHANGED <<app, api_key, boot, hashOrder, req, fnIn, fnOut>>

\* The request's record once its handler has run to its first wait or to its end.
Started(a, key, op, input) ==
    IF a = "llms" /\ ~KeyPresent(key)
    THEN [IdleReq EXCEPT !.pc = "done", !.op = op, !.input = input,
                         !.result = [NoResult EXCEPT !.kind = "stopped"]]
    ELSE IF IsBlank(input)
    THEN [IdleReq EXCEPT !.pc = "done", !.op = op, !.input = input,
                         !.result = [NoResult EXCEPT !.kind = "invalid"]]
    ELSE [IdleReq EXCEPT !.pc = "await", !.op = op, !.input = input,
                         !.calls = <<mistral_call(Pipeline(op)[1], Inquiry(a, input), None)>>]

\* A request arrives: POST /chat, or a button pressed.  llms.py runs its
\* script top first: st.stop() without a key, get_client (cached) with one.
Begin(r, op, input) ==
    /\ boot = "serving"
    /\ req[r].pc = "idle"
    /\ op \in Ops(app)
    /\ req' = [req EXCEPT ![r] = Started(app, api_key, op, input)]
    /\ client' = (client \/ (app = "llms" /\ KeyPresent(api_key)))
    /\ UNCHANGED <<app, api_key, boot, hashOrder, fnIn, fnOut>>

\* The result of a finished operation.
OkResult(category, text, data, err) ==
    [kind |-> "ok", category |-> category, text |-> text, data |-> data, err |-> err]

\* The request's record once its classification call has returned text,
\* classify_inquiry has resolved it to cat, and the handler has run on to
\* its next wait or to its end.
AfterCategory(rq, text, cat, inquiry) ==
    LET calls == [rq.calls EXCEPT ![Len(rq.calls)].outcome = Returned(text)]
    IN  IF Len(Pipeline(rq.op)) = 2
        THEN [rq EXCEPT !.calls = Append(calls, mistral_call("reply", inquiry, ReplyCategory(cat))),
                        !.category = PyStr(cat)]
        ELSE [rq EXCEPT !.calls = calls, !.pc = "done", !.category = PyStr(cat),
                        !.result = OkResult(PyStr(cat), None, None, None)]

\* The result of the extraction tab.
ExtractResult(ext) == OkResult(None, PyStr(ext.raw), ext.data, ext.err)

\* The request's record once a call that is no classification has returned
\* text and the handler has run to its end.
AfterText(rq, text) ==
    LET kind  == rq.calls[Len(rq.calls)].kind
        calls == [rq.calls EXCEPT ![Len(rq.calls)].outcome = Returned(text)]
    IN  CASE kind = "reply" ->
                [rq EXCEPT !.calls = calls, !.pc = "done",
                           !.result = OkResult(rq.category, PyStr(strip(text)), None, None)]
          [] kind = "extract" ->
                [rq EXCEPT !.calls = calls, !.pc = "done",
                           !.result = ExtractResult(extract_medical_json(text))]
          [] OTHER ->
                [rq EXCEPT !.calls = calls, !.pc = "done",
                           !.result = OkResult(None, PyStr(strip(text)), None, None)]

\* A failed classification call swallowed: the fallback category is returned.
AfterError_Fallback(rq) ==
    IF rq.calls[Len(rq.calls)].kind = "classify"
    THEN [rq EXCEPT !.calls = [rq.calls EXCEPT ![Len(rq.calls)].outcome = Raised],
                    !.pc = "done",
                    !.category = PyStr(CustomerService),
                    !.result = OkResult(PyStr(CustomerService), None, None, None)]
    ELSE [rq EXCEPT !.calls = [rq.calls EXCEPT ![Len(rq.calls)].outcome = Raised],
                    !.pc = "done",
                    !.result = [NoResult EXCEPT !.kind = "error"]]

\* The request's record once the pending call has raised: nothing catches the
\* exception before the handler's boundary (Flask's error response, the
\* except clause of the tab), which reports the failure.
AfterError(rq) ==
    [rq EXCEPT !.calls = [rq.calls EXCEPT ![Len(rq.calls)].outcome = Raised],
               !.pc = "done",
               !.result = [NoResult EXCEPT !.kind = "error"]]

\* The generation service answers the pending call of request r.  A
\* classification call: classify_inquiry returns one of the categories the
\* order of the process can give, and the process has shown that much more
\* of its order.
GenReturns(r, text) ==
    /\ req[r].pc = "await"
    /\ text \in RepliesTo(req[r].calls[Len(req[r].calls)].kind)
    /\ IF req[r].calls[Len(req[r].calls)].kind = "classify"
       THEN \E cat \in Categories(text, hashOrder) :
               /\ req' = [req EXCEPT ![r] = AfterCategory(req[r], text, cat, ReplyInquiry(r))]
               /\ hashOrder' = Learn(hashOrder, LabelsIn(text), cat)
       ELSE /\ req' = [req EXCEPT ![r] = AfterText(req[r], text)]
            /\ hashOrder' = hashOrder
    /\ UNCHANGED <<app, api_key, boot, client, fnIn, fnOut>>

\* The pending call of request r fails (network, authentication, rate limit).
GenFails(r) ==
    /\ req[r].pc = "await"
    /\ req' = [req EXCEPT ![r] = AfterError(req[r])]
    /\ UNCHANGED <<app, api_key, boot, client, hashOrder, fnIn, fnOut>>

Next ==
    \/ Startup
    \/ PageLoad
    \/ \E r \in Reqs, op \in Ops(app), input \in UserInputs : Begin(r, op, input)
    \/ \E r \in Reqs, text \in RepliesTo("classify") \cup RepliesTo("extract") \cup RepliesTo("reply") :
            GenReturns(r, text)
    \/ \E r \in Reqs : GenFails(r)

Spec == Init /\ [][Next]_vars

(***************************************************************************)
(* Claims about the handlers (Spec).                                       *)
(***************************************************************************)

AllWhitespace(text) == \A i \in 1..Len(text) : text[i] \in Whitespace

\* C4: in a process that has its key, an operation given an empty or blank
\* input ends with the validation message, and never makes a generation call.
C4_BlankInputNoCall ==
    \A r \in Reqs :
        (req[r].pc # "idle" /\ AllWhitespace(req[r].input)) =>
            /\ req[r].calls = <<>>
            /\ req[r].pc = "done"
            /\ api_key = "set" => req[r].result.kind = "invalid"

\* C4 witness: a summarize request with a blank, non-empty input has ended
\* with the validation message and without a call.
C4_Witness ==
    \E r \in Reqs :
        /\ req[r].op = "summarize"
        /\ req[r].input = <<" ", FormFeed, "\n">>
        /\ req[r].pc = "done"
        /\ req[r].result.kind = "invalid"
        /\ req[r].calls = <<>>

\* C5: a failed generation call ends its operation with an explicit failure:
\* no category (and no other value) is returned, and no call follows it.
C5_FailureIsExplicit ==
    \A r \in Reqs : \A i \in 1..Len(req[r].calls) :
        req[r].calls[i].outcome = Raised =>
            /\ i = Len(req[r].calls)
            /\ req[r].pc = "done"
            /\ req[r].result = [NoResult EXCEPT !.kind = "error"]

\* C5 witness: the classification call of a classify-then-reply request has
\* failed, and the request has ended with the failure after that one call.
C5_Witness ==
    \E r \in Reqs :
        /\ req[r].op \in {"chat", "chatbot"}
        /\ Len(req[r].calls) = 1
        /\ req[r].calls[1].kind = "classify"
        /\ req[r].calls[1].outcome = Raised
        /\ req[r].result.kind = "error"

\* C6: without a key (unset or empty) the client is never constructed, no
\* operation runs and no generation call is made: api.py stops at its
\* RuntimeError, every script run of llms.py at st.stop().
C6_NoKeyNothingRuns ==
    api_key \in {"unset", "empty"} =>
        /\ client = FALSE
        /\ app = "api" => boot \in {"start", "failed"}
        /\ \A r \in Reqs :
              /\ req[r].calls = <<>>
              /\ req[r].pc = "idle" \/ (req[r].pc = "done" /\ req[r].result.kind = "stopped")

\* C6 witness: api.py has failed to start with an empty key.
C6_Witness ==
    /\ app = "api"
    /\ api_key = "empty"
    /\ boot = "failed"
    /\ client = FALSE

\* C9: classify-then-reply that succeeded made exactly two calls, the
\* classification call and then the reply call; the reply prompt carries the
\* category resolved from the classification's answer, which is the category
\* returned.  Every other operation makes at most one call.
C9_TwoCallsInOrder ==
    \A r \in Reqs :
        /\ req[r].op \notin {"chat", "chatbot"} => Len(req[r].calls) <= 1
        /\ Len(req[r].calls) <= 2
        /\ Len(req[r].calls) = 2 =>
              /\ req[r].calls[1].kind = "classify"
              /\ req[r].calls[1].outcome.st = "text"
              /\ req[r].calls[2].kind = "reply"
              /\ req[r].calls[2].category.t = "str"
              /\ Categories(req[r].calls[1].outcome.text, hashOrder)
                    = {req[r].calls[2].category.s}
        /\ (req[r].op \in {"chat", "chatbot"} /\ req[r].result.kind = "ok") =>
              /\ Len(req[r].calls) = 2
              /\ req[r].calls[2].outcome.st = "text"
              /\ req[r].result.category = req[r].calls[2].category

\* C9 witness: a /chat request whose classification answer named three
\* labels has ended with one of them as its category, and a reply.
C9_Witness ==
    \E r \in Reqs :
        /\ req[r].op = "chat"
        /\ req[r].result.kind = "ok"
        /\ Len(req[r].calls) = 2
        /\ Cardinality(LabelsIn(req[r].calls[1].outcome.text)) = 3
        /\ req[r].result.category = PyStr(CancelTransfer)
        /\ req[r].calls[2].category = PyStr(CancelTransfer)
        /\ req[r].result.text # None

\* The handler run alone, in the same process, on the request's own
\* operation and input, given the outcomes of the request's own calls.
AloneStep(rq, own, outcome) ==
    IF outcome = Pending THEN rq
    ELSE IF outcome = Raised THEN AfterError(rq)
    ELSE IF rq.calls[Len(rq.calls)].kind = "classify"
         THEN AfterCategory(rq, outcome.text,
                            CHOOSE c \in Categories(outcome.text, hashOrder) : TRUE,
                            Inquiry(app, own.input))
    ELSE AfterText(rq, outcome.text)

Alone(own) ==
    IF own.pc = "idle" THEN IdleReq
    ELSE IF Len(own.calls) = 0 THEN Started(app, api_key, own.op, own.input)
    ELSE IF Len(own.calls) = 1
         THEN AloneStep(Started(app, api_key, own.op, own.input), own, own.calls[1].outcome)
    ELSE AloneStep(AloneStep(Started(app, api_key, own.op, own.input), own, own.calls[1].outcome),
                   own, own.calls[2].outcome)

\* C10: whatever the interleaving, the calls and the result of each request
\* are those of its handler run alone on its own input with the outcomes of
\* its own calls: nothing of another request enters them.
C10_OwnInputAndOutcomesOnly == \A r \in Reqs : req[r] = Alone(req[r])

\* C10 witness: two requests are in flight at the same time, each waiting for
\* its reply call, with different categories resolved.
C10_Witness ==
    \E r, q \in Reqs :
        /\ r # q
        /\ req[r].pc = "await" /\ Len(req[r].calls) = 2
        /\ req[q].pc = "await" /\ Len(req[q].calls) = 2
        /\ req[r].category # req[q].category

=============================================================================
